---- MODULE Spec2Model ----
(***************************************************************************)
(* A model of app.py, the start-up investments dashboard: the type         *)
(* coercion helpers, the pre_process pipeline, the metric and chart        *)
(* transforms, and the script that runs them on every user interaction.    *)
(*                                                                         *)
(* Cell values.  A table cell is a record [t, s, hi, lo]:                  *)
(*   t = "nan"    the float NaN pandas uses for a missing cell             *)
(*   t = "inf"    the float infinity                                       *)
(*   t = "str"    a Python str, held in s.  Text that the program parses   *)
(*                (funding_total_usd, founded_year) is a sequence of       *)
(*                one-character strings; text that it only compares        *)
(*                (name, market, status, city, country_code, country) is   *)
(*                a TLA+ string                                            *)
(*   t = "int"    the Python int  hi * Billion + lo,  0 <= lo < Billion    *)
(*                (two limbs, because funding reaches 31 * 10^9)           *)
(*   t = "float"  the finite float  hi + lo / 10,  0 <= lo < 10            *)
(***************************************************************************)
EXTENDS Integers, Sequences, FiniteSets, TLC

VARIABLES
    raw,            \* the table load_data returned (the caller's DataFrame)
    data,           \* the result of pre_process(raw): a table, or Raised
    pc,             \* position of the process
    slider,         \* expensive_market_slider
    rounds_select,  \* rounds_select
    status_select,  \* status_select
    view,           \* what the last run of the script rendered
    call            \* the last direct call of a function and what it returned

vars == <<raw, data, pc, slider, rounds_select, status_select, view, call>>

\* ------------------------------------------------------------------ bounds

MaxRows == 2          \* rows of a raw table
MaxCleanRows == 3     \* rows of a table handed directly to a transform

\* ------------------------------------------------------- program constants

Billion == 1000000000
OutlierLimit == 30
SliderMin == 2
SliderMax == 30
SliderDefault == 5

\* ------------------------------------------------------------------ values

NaN == [t |-> "nan", s |-> <<>>, hi |-> 0, lo |-> 0]
Inf == [t |-> "inf", s |-> <<>>, hi |-> 0, lo |-> 0]
PyStr(cs) == [t |-> "str", s |-> cs, hi |-> 0, lo |-> 0]
PyInt(h, l) == [t |-> "int", s |-> <<>>, hi |-> h, lo |-> l]
PyFloat(w, tenths) == [t |-> "float", s |-> <<>>, hi |-> w, lo |-> tenths]

IsNull(v) == v.t = "nan"

Min(a, b) == IF a < b THEN a ELSE b

\* ------------------------------------------------------------ Python str

Digits == {"0", "1", "2", "3", "4", "5", "6", "7", "8", "9"}

DigitVal(c) ==
    CASE c = "0" -> 0 [] c = "1" -> 1 [] c = "2" -> 2 [] c = "3" -> 3
      [] c = "4" -> 4 [] c = "5" -> 5 [] c = "6" -> 6 [] c = "7" -> 7
      [] c = "8" -> 8 [] c = "9" -> 9

DigitChar(d) ==
    CASE d = 0 -> "0" [] d = 1 -> "1" [] d = 2 -> "2" [] d = 3 -> "3"
      [] d = 4 -> "4" [] d = 5 -> "5" [] d = 6 -> "6" [] d = 7 -> "7"
      [] d = 8 -> "8" [] d = 9 -> "9"

\* The code point of a character, for the characters the modelled numeric
\* text is written in (str comparison is by code point).
Ord(c) ==
    CASE c = " " -> 32 [] c = "+" -> 43 [] c = "," -> 44 [] c = "-" -> 45
      [] c = "." -> 46 [] c \in Digits -> 48 + DigitVal(c)
      [] c = "a" -> 97 [] c = "b" -> 98 [] c = "c" -> 99

\* s.replace(old, ''), for a one-character old
RECURSIVE StrRemove(_, _)
StrRemove(cs, old) ==
    IF cs = <<>> THEN <<>>
    ELSE IF Head(cs) = old THEN StrRemove(Tail(cs), old)
    ELSE <<Head(cs)>> \o StrRemove(Tail(cs), old)

\* c in s
StrContains(cs, c) == \E i \in 1..Len(cs) : cs[i] = c

\* s.strip(), as int() applies it to its argument
RECURSIVE LStrip(_)
LStrip(cs) ==
    IF cs # <<>> /\ Head(cs) = " " THEN LStrip(Tail(cs)) ELSE cs

RECURSIVE RStrip(_)
RStrip(cs) ==
    IF cs # <<>> /\ cs[Len(cs)] = " " THEN RStrip(SubSeq(cs, 1, Len(cs) - 1))
    ELSE cs

Strip(cs) == LStrip(RStrip(cs))

\* s1 < s2 on str: lexicographic by code point
RECURSIVE StrLess(_, _)
StrLess(a, b) ==
    IF b = <<>> THEN FALSE
    ELSE IF a = <<>> THEN TRUE
    ELSE IF Ord(Head(a)) # Ord(Head(b)) THEN Ord(Head(a)) < Ord(Head(b))
    ELSE StrLess(Tail(a), Tail(b))

\* ------------------------------------------------------------ Python int

\* The digits of an int literal, after int() has stripped the blanks and an
\* optional '+'.  (A '-' never reaches int() from str_to_int, and the
\* modelled text has no '_'.)
LiteralBody(cs) ==
    LET st == Strip(cs)
    IN  IF st # <<>> /\ Head(st) = "+" THEN Tail(st) ELSE st

\* int(s) succeeds on a str.  (The modelled founded_year text has no
\* negative literal, and str_to_int never hands int() a '-'.)
IsIntLiteral(cs) ==
    LET b == LiteralBody(cs)
    IN  /\ ~StrContains(cs, "-")
        /\ b # <<>>
        /\ \A i \in 1..Len(b) : b[i] \in Digits

\* ten times the int <<hi, lo>>, plus the digit d
Times10Plus(n, d) ==
    LET top == n[2] \div (Billion \div 10)
        rest == n[2] % (Billion \div 10)
    IN  <<n[1] * 10 + top, rest * 10 + d>>

\* the value of a string of digits, as <<hi, lo>>
RECURSIVE DigitsValue(_, _)
DigitsValue(ds, acc) ==
    IF ds = <<>> THEN acc
    ELSE DigitsValue(Tail(ds), Times10Plus(acc, DigitVal(Head(ds))))

\* int(s) for a str s on which it succeeds
IntOfStr(cs) ==
    LET n == DigitsValue(LiteralBody(cs), <<0, 0>>) IN PyInt(n[1], n[2])

\* str(n) for 0 <= n < Billion
RECURSIVE Decimal(_)
Decimal(n) ==
    IF n < 10 THEN <<DigitChar(n)>>
    ELSE Decimal(n \div 10) \o <<DigitChar(n % 10)>>

\* n written with exactly k digits (the low limb below a non-zero high limb)
RECURSIVE Padded(_, _)
Padded(n, k) ==
    IF k = 0 THEN <<>> ELSE Padded(n \div 10, k - 1) \o <<DigitChar(n % 10)>>

\* str(n) for the int value n
StrOfInt(n) ==
    IF n.hi = 0 THEN PyStr(Decimal(n.lo))
    ELSE PyStr(Decimal(n.hi) \o Padded(n.lo, 9))

\* a + b on ints
IntAdd(a, b) ==
    LET l == a.lo + b.lo - Billion
        \* a.lo + b.lo may pass 2^31: compare before adding
        carry == a.lo >= Billion - b.lo
    IN  IF carry THEN PyInt(a.hi + b.hi + 1, l)
        ELSE PyInt(a.hi + b.hi, a.lo + b.lo)

\* --------------------------------------------------- type coercion helpers

\* The marker for a call that raised instead of returning.
Raise == [t |-> "raise", s |-> <<>>, hi |-> 0, lo |-> 0]

str_to_int(v) ==
    IF v.t # "str"
    THEN v                                  \* no .replace: AttributeError, return s
    ELSE LET s1 == StrRemove(v.s, ",")
         IN  IF StrContains(s1, "-") THEN PyInt(0, 0)
             ELSE IF IsIntLiteral(s1) THEN IntOfStr(s1)
             ELSE PyStr(s1)                   \* ValueError, return s

float_to_str(v) ==
    CASE v.t = "float" -> StrOfInt(PyInt(0, v.hi))    \* int() truncates
      [] v.t = "int" -> StrOfInt(v)
      [] v.t = "nan" -> v                           \* ValueError, return f
      [] v.t = "inf" -> Raise                       \* OverflowError, not caught
      [] v.t = "str" -> IF IsIntLiteral(v.s) THEN StrOfInt(IntOfStr(v.s))
                        ELSE v                      \* ValueError, return f

\* Convert Country code to Country name: the entries of the pycountry
\* database (alpha_3 -> name) that the modelled tables use.
Alpha3 == {"USA", "ROU", "GBR"}

CountryName(code) ==
    CASE code = "USA" -> "United States"
      [] code = "ROU" -> "Romania"
      [] code = "GBR" -> "United Kingdom"

code_to_country(v) ==
    LET text == IF v.t = "str" /\ v.s = "ROM" THEN "ROU" ELSE v.s
    IN  IF v.t = "str" /\ text \in Alpha3
        THEN PyStr(CountryName(text))
        ELSE Raise                      \* get() found nothing: no .name

\* -------------------------------------------------------------- DataFrame

\* A DataFrame is [cols, rows]: the set of its column labels and the
\* sequence of its rows, each a function from the labels to cell values.

NoTable == [cols |-> {}, rows |-> <<>>]

DroppedCols == {"permalink", "homepage_url", "category_list"}

RoundCols ==
    {"round_A", "round_B", "round_C", "round_D",
     "round_E", "round_F", "round_G", "round_H"}

\* df.rename({' funding_total_usd ': ..., ' market ': ...}, axis='columns')
NewLabel(c) ==
    IF c = " funding_total_usd " THEN "funding_total_usd"
    ELSE IF c = " market " THEN "market"
    ELSE c

rename(df) ==
    LET labels == {NewLabel(c) : c \in df.cols}
        old(l) == CHOOSE c \in df.cols : NewLabel(c) = l
    IN  [cols |-> labels,
         rows |-> [i \in 1..Len(df.rows) |->
                      [l \in labels |-> df.rows[i][old(l)]]]]

\* df.drop(labels, axis=1), for labels that are all present
drop(df, labels) ==
    [cols |-> df.cols \ labels,
     rows |-> [i \in 1..Len(df.rows) |->
                  [c \in df.cols \ labels |-> df.rows[i][c]]]]

\* df['funding_total_usd'] = df['funding_total_usd'].apply(str_to_int)
apply_str_to_int(df) ==
    [cols |-> df.cols,
     rows |-> [i \in 1..Len(df.rows) |->
                  [df.rows[i] EXCEPT !["funding_total_usd"] =
                      str_to_int(df.rows[i]["funding_total_usd"])]]]

\* df['founded_year'] = df['founded_year'].apply(float_to_str)
apply_float_to_str(df) ==
    [cols |-> df.cols,
     rows |-> [i \in 1..Len(df.rows) |->
                  [df.rows[i] EXCEPT !["founded_year"] =
                      float_to_str(df.rows[i]["founded_year"])]]]

\* some call made by df[col].apply raised
apply_raises(df, col) == \E i \in 1..Len(df.rows) : df.rows[i][col] = Raise

\* value != 0, elementwise
NotZero(v) == ~(v.t \in {"int", "float"} /\ v.hi = 0 /\ v.lo = 0)

\* df[df[col] != 0]
filter_nonzero(df, col) ==
    [cols |-> df.cols,
     rows |-> SelectSeq(df.rows, LAMBDA r : NotZero(r[col]))]

\* df.dropna()
dropna(df) ==
    [cols |-> df.cols,
     rows |-> SelectSeq(df.rows, LAMBDA r : \A c \in df.cols : ~IsNull(r[c]))]

\* df.drop_duplicates(): the first of each group of equal rows is kept
RECURSIVE FirstOccurrences(_, _)
FirstOccurrences(rows, seen) ==
    IF rows = <<>> THEN <<>>
    ELSE IF Head(rows) \in seen THEN FirstOccurrences(Tail(rows), seen)
    ELSE <<Head(rows)>> \o FirstOccurrences(Tail(rows), seen \cup {Head(rows)})

drop_duplicates(df) ==
    [cols |-> df.cols, rows |-> FirstOccurrences(df.rows, {})]

\* df['country'] = df['country_code'].apply(code_to_country)
add_country(df) ==
    [cols |-> df.cols \cup {"country"},
     rows |-> [i \in 1..Len(df.rows) |->
                  [c \in df.cols \cup {"country"} |->
                      IF c = "country"
                      THEN code_to_country(df.rows[i]["country_code"])
                      ELSE df.rows[i][c]]]]

\* ------------------------------------------------------------ pre_process

\* The steps of pre_process in order; each names the table the local name
\* df is bound to after the step.
Renamed(df) == rename(df)
Trimmed(df) == drop(drop(Renamed(df), {"state_code"}), DroppedCols)
FundingCoerced(df) == apply_str_to_int(Trimmed(df))
YearCoerced(df) == apply_float_to_str(FundingCoerced(df))
NonZero(df) == filter_nonzero(YearCoerced(df), "funding_total_usd")
NonNull(df) == dropna(NonZero(df))
Deduplicated(df) == drop_duplicates(NonNull(df))
WithCountry(df) == add_country(Deduplicated(df))
Final(df) == drop(WithCountry(df), {"country_code"})

\* A step of pre_process raises: a label to drop or to read is missing
\* (KeyError), float_to_str let an OverflowError through, or
\* code_to_country found no country.
pre_process_raises(df) ==
    \/ ~({"state_code"} \cup DroppedCols \subseteq Renamed(df).cols)
    \/ ~({"funding_total_usd", "founded_year"} \subseteq Renamed(df).cols)
    \/ apply_raises(YearCoerced(df), "founded_year")
    \/ "country_code" \notin Renamed(df).cols
    \/ apply_raises(WithCountry(df), "country")

\* pre_process(df): whether it raised, the table it returned, and the
\* caller's table after the call.  Line 52 rebinds the local name df to the
\* copy rename returns, so no later step touches the caller's table.
pre_process(df) ==
    IF pre_process_raises(df)
    THEN [raised |-> TRUE, df |-> NoTable, arg |-> df]
    ELSE [raised |-> FALSE, df |-> Final(df), arg |-> df]

\* ------------------------------------------------------------- transforms

\* What a call returned: st is "ok" with the value, or "raised".
Ok(v) == [st |-> "ok", value |-> v]
Raised == [st |-> "raised", value |-> <<>>]
NotRun == [st |-> "not run", value |-> <<>>]

RoundList ==
    <<"round_A", "round_B", "round_C", "round_D",
      "round_E", "round_F", "round_G", "round_H">>

\* The amounts of the round_* and debt_financing columns are floats; a sum
\* of floats is kept in tenths.
Tenths(v) == v.hi * 10 + v.lo

\* data[col].sum(), in tenths
RECURSIVE SumTenths(_, _)
SumTenths(rows, col) ==
    IF rows = <<>> THEN 0
    ELSE Tenths(Head(rows)[col]) + SumTenths(Tail(rows), col)

\* data[cols].sum().sum(), in tenths, for a list of columns
RECURSIVE SumColumns(_, _)
SumColumns(rows, colList) ==
    IF colList = <<>> THEN 0
    ELSE SumTenths(rows, Head(colList)) + SumColumns(rows, Tail(colList))

\* round(x) for x given in tenths: to the nearest integer, a tie to the
\* even one
round(tenths) ==
    LET q == tenths \div 10
        r == tenths % 10
    IN  IF r < 5 THEN q
        ELSE IF r > 5 THEN q + 1
        ELSE IF q % 2 = 0 THEN q ELSE q + 1

\* total_investments had it summed the first round column alone
total_investments_round_A_only(d) ==
    IF ~(RoundCols \subseteq d.cols) THEN Raised
    ELSE Ok(round(SumTenths(d.rows, "round_A")))

\* Total investments
total_investments(d) ==
    IF ~(RoundCols \subseteq d.cols) THEN Raised                 \* KeyError
    ELSE Ok(round(SumColumns(d.rows, RoundList)))

\* data[col].sum() for the funding column: ints add; a str among them is a
\* TypeError
AllInts(rows, col) == \A i \in 1..Len(rows) : rows[i][col].t = "int"

RECURSIVE SumInts(_, _)
SumInts(rows, col) ==
    IF rows = <<>> THEN PyInt(0, 0)
    ELSE IntAdd(Head(rows)[col], SumInts(Tail(rows), col))

\* Total Fundings
total_fundings(d) ==
    IF "funding_total_usd" \notin d.cols THEN Raised
    ELSE IF ~AllInts(d.rows, "funding_total_usd") THEN Raised   \* TypeError
    ELSE Ok(SumInts(d.rows, "funding_total_usd"))

\* Total Companies Invested in
total_companies_invested(d) ==
    IF "name" \notin d.cols THEN Raised
    ELSE Ok(Cardinality({d.rows[i]["name"] : i \in 1..Len(d.rows)}))

\* data[col].value_counts(): one (label, count) entry per distinct value, the
\* higher count first.  The order among equal counts is the library's; here
\* they stay in order of first appearance.
Column(rows, col) == [i \in 1..Len(rows) |-> rows[i][col]]

CountOf(vals, v) == Cardinality({i \in 1..Len(vals) : vals[i] = v})

RECURSIVE InsertByCount(_, _)
InsertByCount(sorted, e) ==
    IF sorted = <<>> THEN <<e>>
    ELSE IF Head(sorted).count >= e.count
         THEN <<Head(sorted)>> \o InsertByCount(Tail(sorted), e)
         ELSE <<e>> \o sorted

RECURSIVE SortByCount(_)
SortByCount(entries) ==
    IF entries = <<>> THEN <<>>
    ELSE InsertByCount(SortByCount(SubSeq(entries, 1, Len(entries) - 1)),
                       entries[Len(entries)])

value_counts(rows, col) ==
    LET vals == Column(rows, col)
        firsts == FirstOccurrences(vals, {})
    IN  SortByCount([i \in 1..Len(firsts) |->
                        [label |-> firsts[i], count |-> CountOf(vals, firsts[i])]])

\* seq[:n]
Prefix(seq, n) == SubSeq(seq, 1, Min(n, Len(seq)))

\* the pie chart had it sliced [:slider - 1]
expensive_markets_pie_chart_off_by_one(d, n) ==
    IF "market" \notin d.cols THEN Raised
    ELSE Ok(Prefix(value_counts(d.rows, "market"), n - 1))

\* Pie Chart to show most expensive market
expensive_markets_pie_chart(d, n) ==
    IF "market" \notin d.cols THEN Raised
    ELSE Ok(Prefix(value_counts(d.rows, "market"), n))

\* Histogram to show StartUp Status: the bar of each selected status that
\* occurs, with its count
startup_status_histogram(d, select) ==
    IF "status" \notin d.cols THEN Raised
    ELSE LET vals == SelectSeq(Column(d.rows, "status"), LAMBDA v : v \in select)
         IN  Ok({[label |-> v, count |-> CountOf(vals, v)] :
                    v \in {vals[i] : i \in 1..Len(vals)}})

\* Histogram to show Investments in round: data[select].sum(), in tenths
rounds_histogram(d, select) ==
    IF ~({select[i] : i \in 1..Len(select)} \subseteq d.cols) THEN Raised
    ELSE Ok([i \in 1..Len(select) |->
                [rounds |-> select[i],
                 investments |-> SumTenths(d.rows, select[i])]])

\* sorted(S) for a set of str
RECURSIVE Sorted(_)
Sorted(S) ==
    IF S = {} THEN <<>>
    ELSE LET least == CHOOSE x \in S : \A y \in S \ {x} : StrLess(x.s, y.s)
         IN  <<least>> \o Sorted(S \ {least})

\* data[data['founded_year'] == year]
RowsOfYear(rows, year) == SelectSeq(rows, LAMBDA r : r["founded_year"] = year)

\* Line chart to show Funding required each year: the (year, sum / 10^9)
\* points in the order of the dict's keys.  The quotient of the int
\* hi * 10^9 + lo by 10^9 is hi + lo / 10^9: the value keeps both limbs.
funding_line_chart(d) ==
    IF ~({"founded_year", "funding_total_usd"} \subseteq d.cols) THEN Raised
    ELSE LET years == {d.rows[i]["founded_year"] : i \in 1..Len(d.rows)}
             order == Sorted(years)
         IN  IF ~AllInts(d.rows, "funding_total_usd")
             THEN Raised                                        \* TypeError
             ELSE Ok([i \in 1..Len(order) |->
                     LET total == SumInts(RowsOfYear(d.rows, order[i]),
                                          "funding_total_usd")
                     IN  [year |-> order[i].s,
                          billions |-> <<total.hi, total.lo>>]])

\* value > 0 on a float
Positive(v) == v.hi > 0 \/ v.lo > 0

\* value / 10**9 < limit on an int: hi + lo / 10^9 < limit, with lo < 10^9
ScaledBelow(v, limit) == v.hi < limit

\* Scatter to show Correlation between debt financing and startup funding:
\* the rows plotted
scatter_rows(d) ==
    SelectSeq(d.rows,
              LAMBDA r : /\ Positive(r["debt_financing"])
                         /\ ScaledBelow(r["funding_total_usd"], OutlierLimit))

debt_funding_scatter_plot(d) ==
    IF ~({"debt_financing", "funding_total_usd"} \subseteq d.cols) THEN Raised
    ELSE IF ~AllInts(d.rows, "funding_total_usd") THEN Raised    \* TypeError
    ELSE Ok([i \in 1..Len(scatter_rows(d)) |->
                [x |-> scatter_rows(d)[i]["funding_total_usd"],
                 y |-> scatter_rows(d)[i]["debt_financing"]]])

\* ------------------------------------------------------------- the script

DefaultStatus == {PyStr("acquired"), PyStr("operating")}

\* the script had startup_status_histogram filtered the table it was given
\* in place
script_filtering_in_place(d, n, rsel, ssel) ==
    [view |-> [i \in 1..8 |-> NotRun],
     data |-> [cols |-> d.cols,
               rows |-> SelectSeq(d.rows, LAMBDA r : r["status"] \in ssel)]]

\* One run of the script body below the widgets (lines 168-183) on the
\* table d: the eight results in the order of the calls.  A call that raises
\* ends the run, and the calls after it are not made.  No call assigns to a
\* cell or a column of d: the table the caller holds afterwards is d.
script(d, n, rsel, ssel) ==
    LET r == <<total_companies_invested(d),
               total_investments(d),
               total_fundings(d),
               expensive_markets_pie_chart(d, n),
               rounds_histogram(d, rsel),
               funding_line_chart(d),
               startup_status_histogram(d, ssel),
               debt_funding_scatter_plot(d)>>
        stop == IF \E i \in 1..8 : r[i].st = "raised"
                THEN CHOOSE i \in 1..8 :
                         /\ r[i].st = "raised"
                         /\ \A j \in 1..(i - 1) : r[j].st # "raised"
                ELSE 8
    IN  [view |-> [i \in 1..8 |-> IF i <= stop THEN r[i] ELSE NotRun],
         data |-> d]

NoView == [i \in 1..8 |-> NotRun]
NoCall == [fn |-> "none"]

\* ------------------------------------------------------------- raw tables

RawCols ==
    {"permalink", "name", "homepage_url", "category_list", " market ",
     " funding_total_usd ", "status", "country_code", "state_code", "city",
     "founded_year", "debt_financing"} \cup RoundCols

RawRow(name, status, funding, year, code, city) ==
    [c \in RawCols |->
        CASE c = "name" -> PyStr(name)
          [] c = "status" -> PyStr(status)
          [] c = " funding_total_usd " -> funding
          [] c = "founded_year" -> year
          [] c = "country_code" -> code
          [] c = "city" -> city
          [] c = " market " -> PyStr("Software")
          [] c = "state_code" -> NaN
          [] c = "debt_financing" -> PyFloat(0, 0)
          [] c = "round_A" -> PyFloat(100, 0)
          [] c \in RoundCols \ {"round_A"} -> PyFloat(0, 0)
          [] OTHER -> PyStr("/organization/x")]

Thousand == PyStr(<<"1", ",", "0", "0", "0">>)
Y2010 == PyFloat(2010, 0)
Austin == PyStr("Austin")

RawRows ==
    {RawRow("Acme", "operating", Thousand, Y2010, PyStr("USA"), Austin),
     RawRow("Acme", "operating", PyStr(<<"1", "0", "0", "0">>), Y2010,
            PyStr("USA"), Austin),
     RawRow("Beta", "acquired", PyStr(<<" ", "2", "5", " ">>), PyFloat(1999, 5),
            PyStr("GBR"), Austin),
     RawRow("Acme", "operating", PyStr(<<" ", "-", " ", " ">>), Y2010,
            PyStr("USA"), Austin),
     RawRow("Acme", "operating", PyStr(<<"0">>), Y2010, PyStr("USA"), Austin),
     RawRow("Acme", "operating", PyStr(<<"a", "b", "c">>), Y2010,
            PyStr("USA"), Austin),
     RawRow("Acme", "operating", NaN, Y2010, PyStr("USA"), Austin),
     RawRow("Acme", "operating", Thousand, NaN, PyStr("USA"), Austin),
     RawRow("Acme", "operating", Thousand, Inf, PyStr("USA"), Austin),
     RawRow("Acme", "operating", Thousand, PyStr(<<"a", "b", "c">>),
            PyStr("USA"), Austin),
     RawRow("Acme", "operating", Thousand, Y2010, PyStr("ROM"), Austin),
     RawRow("Acme", "operating", Thousand, Y2010, PyStr("ROU"), Austin),
     RawRow("Acme", "operating", Thousand, Y2010, PyStr("XXX"), Austin),
     RawRow("Acme", "operating", Thousand, Y2010, NaN, Austin),
     RawRow("Acme", "operating", PyStr(<<"-">>), Y2010, PyStr("XXX"), Austin),
     RawRow("Acme", "operating", Thousand, Y2010, PyStr("XXX"), NaN),
     RawRow("Acme", "operating", Thousand, Y2010, PyStr("USA"), NaN)}

\* the sequences of at most n elements of S
SeqsUpTo(S, n) == UNION {[1..k -> S] : k \in 0..n}

RawTables == {[cols |-> RawCols, rows |-> rs] : rs \in SeqsUpTo(RawRows, MaxRows)}

\* ---------------------------------------------------------- cleaned tables

\* Tables a transform can be handed: rows of the final schema, with the
\* cells pre_process can leave in them (an int or an unparsed str as
\* funding_total_usd, a str as founded_year, floats as amounts).

CleanCols ==
    {"name", "market", "funding_total_usd", "status", "country", "city",
     "founded_year", "debt_financing"} \cup RoundCols

CleanRow(name, market, funding, year, debt, roundA, roundB) ==
    [c \in CleanCols |->
        CASE c = "name" -> PyStr(name)
          [] c = "market" -> PyStr(market)
          [] c = "funding_total_usd" -> funding
          [] c = "founded_year" -> PyStr(year)
          [] c = "debt_financing" -> debt
          [] c = "round_A" -> roundA
          [] c = "round_B" -> roundB
          [] c \in RoundCols \ {"round_A", "round_B"} -> PyFloat(0, 0)
          [] c = "status" -> PyStr("operating")
          [] c = "country" -> PyStr("United States")
          [] c = "city" -> Austin]

CleanRows ==
    {CleanRow("Acme", "Software", PyInt(2, 0), <<"2", "0", "1", "0">>,
              PyFloat(0, 0), PyFloat(100, 0), PyFloat(0, 0)),
     CleanRow("Acme", "Software", PyInt(0, 500000000), <<"2", "0", "1", "0">>,
              PyFloat(5, 0), PyFloat(50, 0), PyFloat(0, 0)),
     CleanRow("Beta", "Biotech", PyInt(29, 999999999), <<"9", "9", "9">>,
              PyFloat(1, 5), PyFloat(0, 0), PyFloat(200, 0)),
     CleanRow("Gamma", "Fintech", PyInt(30, 0), <<"1", "0", "0", "0">>,
              PyFloat(7, 0), PyFloat(0, 5), PyFloat(0, 0)),
     CleanRow("Delta", "Fintech", PyInt(31, 0), <<"2", "0", "1", "0">>,
              PyFloat(2, 0), PyFloat(1, 5), PyFloat(0, 0)),
     CleanRow("Eps", "Biotech", PyInt(30, 0), <<"9", "9", "9">>,
              PyFloat(0, 0), PyFloat(0, 0), PyFloat(0, 0)),
     CleanRow("Zeta", "Health", PyStr(<<"a", "b", "c">>), <<"2", "0", "1", "1">>,
              PyFloat(3, 0), PyFloat(10, 0), PyFloat(0, 5))}

Injective(seq) == \A i, j \in 1..Len(seq) : seq[i] = seq[j] => i = j

CleanTables ==
    {[cols |-> CleanCols, rows |-> rs] :
        rs \in {q \in SeqsUpTo(CleanRows, MaxCleanRows) : Injective(q)}}

\* ------------------------------------------------- the dashboard process

SliderChoices == {SliderMin, SliderDefault, SliderMax}

RoundChoices == {RoundList, <<"round_B", "round_A">>, <<>>}

Statuses(d) == {d.rows[i]["status"] : i \in 1..Len(d.rows)}

\* The raw tables the dashboard process is started on: rows of RawRows that
\* parse, that do not, that are duplicates after coercion, and that fail the
\* country lookup.
ProcessRows ==
    {r \in RawRows :
        /\ r["city"] = Austin
        /\ r["founded_year"] \in {Y2010, PyFloat(1999, 5)}
        /\ r["country_code"] \in {PyStr("USA"), PyStr("GBR"), PyStr("ROM"),
                                  PyStr("XXX")}}

ProcessTables ==
    {[cols |-> RawCols, rows |-> rs] : rs \in SeqsUpTo(ProcessRows, MaxRows)}

Init ==
    /\ raw \in ProcessTables
    /\ data = NoTable
    /\ pc = "start"
    /\ slider = SliderDefault
    /\ rounds_select = RoundList
    /\ status_select = DefaultStatus
    /\ view = NoView
    /\ call = NoCall

\* The first run of the script: pre_process, then the widgets at their
\* defaults, then the metrics and charts.
Startup ==
    /\ pc = "start"
    /\ LET p == pre_process(raw)
           s == script(p.df, slider, rounds_select, status_select)
       IN  /\ raw' = p.arg
           /\ IF p.raised
              THEN pc' = "failed" /\ data' = NoTable /\ view' = NoView
              ELSE pc' = "ready" /\ data' = s.data /\ view' = s.view
    /\ UNCHANGED <<slider, rounds_select, status_select, call>>

\* A widget changes: the script runs again from the top.  pre_process is
\* cached on its argument, so the run gets the cleaned table again.
Rerun(n, rsel, ssel) ==
    LET s == script(data, n, rsel, ssel)
    IN  /\ slider' = n
        /\ rounds_select' = rsel
        /\ status_select' = ssel
        /\ data' = s.data
        /\ view' = s.view
        /\ UNCHANGED <<raw, pc, call>>

SetSlider ==
    /\ pc = "ready"
    /\ \E n \in SliderChoices \ {slider} : Rerun(n, rounds_select, status_select)

SetRounds ==
    /\ pc = "ready"
    /\ \E rsel \in RoundChoices \ {rounds_select} :
           Rerun(slider, rsel, status_select)

SetStatus ==
    /\ pc = "ready"
    /\ \E ssel \in SUBSET Statuses(data) \ {status_select} :
           Rerun(slider, rounds_select, ssel)

Next == Startup \/ SetSlider \/ SetRounds \/ SetStatus

Spec == Init /\ [][Next]_vars

\* ------------------------------------------- pre_process as a function

InitPipeline ==
    /\ raw \in RawTables
    /\ data = NoTable
    /\ pc = "loaded"
    /\ slider = SliderDefault
    /\ rounds_select = RoundList
    /\ status_select = DefaultStatus
    /\ view = NoView
    /\ call = NoCall

\* pre_process(raw)
CallPreProcess ==
    /\ pc = "loaded"
    /\ LET p == pre_process(raw)
       IN  /\ call' = [fn |-> "pre_process", raised |-> p.raised, df |-> p.df]
           /\ data' = p.df
           /\ raw' = p.arg
           /\ pc' = IF p.raised THEN "raised" ELSE "returned"
    /\ UNCHANGED <<slider, rounds_select, status_select, view>>

\* pre_process(data), on the table the first call returned
CallPreProcessAgain ==
    /\ pc = "returned"
    /\ LET p == pre_process(data)
       IN  /\ call' = [fn |-> "pre_process again", raised |-> p.raised,
                       df |-> p.df]
           /\ data' = p.arg
           /\ pc' = "again"
    /\ UNCHANGED <<raw, slider, rounds_select, status_select, view>>

NextPipeline == CallPreProcess \/ CallPreProcessAgain

SpecPipeline == InitPipeline /\ [][NextPipeline]_vars

\* --------------------------------------------- the transforms as functions

InitTransforms ==
    /\ raw = NoTable
    /\ data \in CleanTables
    /\ pc = "ready"
    /\ slider = SliderDefault
    /\ rounds_select = RoundList
    /\ status_select = DefaultStatus
    /\ view = NoView
    /\ call = NoCall

Returned(fn, n, result) ==
    /\ call' = [fn |-> fn, n |-> n, result |-> result]
    /\ UNCHANGED <<raw, data, pc, slider, rounds_select, status_select, view>>

CallTotalInvestments == Returned("total_investments", 0, total_investments(data))

CallPie ==
    \E n \in SliderMin..SliderMax :
        Returned("expensive_markets_pie_chart", n,
                 expensive_markets_pie_chart(data, n))

CallLine == Returned("funding_line_chart", 0, funding_line_chart(data))

CallScatter ==
    Returned("debt_funding_scatter_plot", 0, debt_funding_scatter_plot(data))

NextTransforms == CallTotalInvestments \/ CallPie \/ CallLine \/ CallScatter

SpecTransforms == InitTransforms /\ [][NextTransforms]_vars

\* ------------------------------------------------------------------ claims

Rows(d) == {d.rows[i] : i \in 1..Len(d.rows)}

\* a funding_total_usd cell that str_to_int parsed
ParsedFunding(v) == v.t = "int"

\* a founded_year cell that float_to_str rendered: a string of digits
CanonicalYear(v) ==
    /\ v.t = "str"
    /\ v.s # <<>>
    /\ \A i \in 1..Len(v.s) : v.s[i] \in Digits

\* C1: in the table pre_process returns no cell is null, and no
\* funding_total_usd or founded_year cell is a value the coercion helper
\* could not parse and handed back.
C1_NoNullOrUnparsed ==
    pc = "returned" =>
        \A r \in Rows(data) :
            /\ \A c \in data.cols : ~IsNull(r[c])
            /\ ParsedFunding(r["funding_total_usd"])
            /\ CanonicalYear(r["founded_year"])

\* C2: every row of the table pre_process returns has a funding_total_usd
\* that is an integer strictly greater than 0.
C2_FundingPositiveInteger ==
    pc = "returned" =>
        \A r \in Rows(data) :
            /\ r["funding_total_usd"].t = "int"
            /\ (r["funding_total_usd"].hi > 0 \/ r["funding_total_usd"].lo > 0)

\* C3: the table pre_process returns holds no two rows, at distinct
\* indices, that are equal in every column.
C3_NoDuplicateRows ==
    pc = "returned" =>
        \A i, j \in 1..Len(data.rows) : data.rows[i] = data.rows[j] => i = j

\* C4: pre_process applied to a table pre_process returned does not raise
\* and returns that same table.
C4_Idempotent ==
    pc = "again" => (~call.raised /\ call.df = data)

\* the country_code is not a recognised alpha-3 code, 'ROM' read as 'ROU'
Unrecognised(v) ==
    ~(v.t = "str" /\ (IF v.s = "ROM" THEN "ROU" ELSE v.s) \in Alpha3)

\* C10: pre_process raises if and only if a row that survives the
\* zero-funding filter, the null drop and the duplicate drop has an
\* unrecognised country_code.
C10_RaisesIffSurvivorUnrecognised ==
    pc \in {"returned", "raised"} =>
        (pc = "raised" <=>
            \E r \in Rows(Deduplicated(raw)) : Unrecognised(r["country_code"]))

\* On raw tables with no infinite founded_year the equivalence of C10 holds:
\* the infinite year is the only other way pre_process raises on a raw table.
RaisesIffSurvivorUnrecognisedOnFiniteYears ==
    (pc \in {"returned", "raised"} /\ \A r \in Rows(raw) : r["founded_year"] # Inf)
        => (pc = "raised" <=>
               \E r \in Rows(Deduplicated(raw)) : Unrecognised(r["country_code"]))

\* the number a canonical year string denotes
YearNumber(cs) == DigitsValue(cs, <<0, 0>>)[2]

\* the sum of funding_total_usd over the rows of a set, as <<hi, lo>>
RECURSIVE FundingOf(_)
FundingOf(S) ==
    IF S = {} THEN <<0, 0>>
    ELSE LET r == CHOOSE x \in S : TRUE
             rest == FundingOf(S \ {r})
             f == r["funding_total_usd"]
         IN  IF rest[2] >= Billion - f.lo
             THEN <<rest[1] + f.hi + 1, rest[2] - (Billion - f.lo)>>
             ELSE <<rest[1] + f.hi, rest[2] + f.lo>>

\* C5: whenever funding_line_chart draws its line, it has exactly one point
\* per distinct founded_year of the table, the point's value is the sum of
\* funding_total_usd over the rows of that year divided by 10^9, and the
\* points are in ascending order of the year as a number.
C5_LineChartByYearAscending ==
    (call.fn = "funding_line_chart" /\ call.result.st = "ok") =>
        LET pts == call.result.value
        IN  /\ \A i, j \in 1..Len(pts) : pts[i].year = pts[j].year => i = j
            /\ {pts[i].year : i \in 1..Len(pts)}
                   = {r["founded_year"].s : r \in Rows(data)}
            /\ \A i \in 1..Len(pts) :
                   pts[i].billions =
                       FundingOf({r \in Rows(data) :
                                     r["founded_year"].s = pts[i].year})
            /\ \A i, j \in 1..Len(pts) :
                   i < j => YearNumber(pts[i].year) < YearNumber(pts[j].year)

\* funding_total_usd < 30 * 10^9, on the int hi * 10^9 + lo
BelowThirtyBillion(v) == v.t = "int" /\ v.hi < 30

\* C6: debt_funding_scatter_plot plots exactly the rows with
\* debt_financing > 0 and funding_total_usd < 30 * 10^9.
C6_ScatterKeepsExactlyTheFilteredRows ==
    call.fn = "debt_funding_scatter_plot" =>
        /\ call.result.st = "ok"
        /\ {<<p.x, p.y>> : p \in {call.result.value[i] :
                                     i \in 1..Len(call.result.value)}}
               = {<<r["funding_total_usd"], r["debt_financing"]>> :
                      r \in {q \in Rows(data) :
                                /\ Positive(q["debt_financing"])
                                /\ BelowThirtyBillion(q["funding_total_usd"])}}

\* On tables whose funding_total_usd cells are all ints the statement of C6
\* holds: the scatter fails it only by raising on an unparsed str.
ScatterKeepsExactlyTheFilteredRowsOnParsedFunding ==
    (call.fn = "debt_funding_scatter_plot"
         /\ \A r \in Rows(data) : ParsedFunding(r["funding_total_usd"]))
        => C6_ScatterKeepsExactlyTheFilteredRows

\* the number of rows of d whose market is m
MarketRows(d, m) == Cardinality({i \in 1..Len(d.rows) : d.rows[i]["market"] = m})

Markets(d) == {r["market"] : r \in Rows(d)}

RECURSIVE TenthsOver(_)
TenthsOver(cells) ==
    IF cells = {} THEN 0
    ELSE LET x == CHOOSE e \in cells : TRUE
         IN  Tenths(data.rows[x[1]][x[2]]) + TenthsOver(cells \ {x})

AllRoundTenths == TenthsOver((1..Len(data.rows)) \X RoundCols)

\* C8 as stated: total_investments returns the sum of the round amounts
\* over all rows and all eight round columns.
C8_TotalIsTheSum ==
    call.fn = "total_investments" =>
        /\ call.result.st = "ok"
        /\ call.result.value * 10 = AllRoundTenths

\* C8 amended: total_investments returns that sum rounded to the nearest
\* integer, a sum half-way between two integers going to the even one.
C8_TotalIsTheRoundedSum ==
    call.fn = "total_investments" =>
        /\ call.result.st = "ok"
        /\ LET v == call.result.value
               diff == v * 10 - AllRoundTenths
           IN  /\ diff \in -5..5
               /\ diff \in {-5, 5} => v % 2 = 0

\* C8 witness: rows of two companies, one of them with two rows, whose
\* amounts in round_A and round_B sum to a whole number plus a half.
C8_Witness ==
    /\ call.fn = "total_investments"
    /\ call.result.st = "ok"
    /\ Len(data.rows) = 3
    /\ Cardinality({r["name"] : r \in Rows(data)}) = 2
    /\ \E r \in Rows(data) : Positive(r["round_B"])
    /\ AllRoundTenths % 10 = 5

====
